---- MODULE Spec2Model ----
(***************************************************************************)
(* Model of the Perfume 3D Shop API (src/main.py): the product handlers    *)
(* list_products, create_product, get_product and seed_products, the       *)
(* record shaper serialize_doc and the ProductIn schema, over a document   *)
(* store holding the single collection "product".                          *)
(*                                                                         *)
(* Representation.                                                         *)
(*  - A dict is a function whose domain is its set of keys.                *)
(*  - A float is an integer number of tenths (4.5 is 45, 68.0 is 680).     *)
(*  - An Optional value is a sequence of length <= 1: None is <<>>, a      *)
(*    value v is <<v>>. A JSON payload is a dict of such values (null is   *)
(*    <<>>); a key the caller did not send is not in the domain.           *)
(*  - A string that the code inspects character by character (a product id *)
(*    on the wire) is a sequence of one-character strings.                 *)
(*  - A native id is a record [type, val]: an ObjectId is                  *)
(*    [type |-> "ObjectId", val |-> its 24 nibbles].                       *)
(***************************************************************************)
EXTENDS Integers, Sequences, FiniteSets, TLC

\* ------------------------------------------------------------- bounds
\* Seed calls that may be in flight at the same time.
MaxSeedCalls == 2
\* Requests accepted in one behaviour (every handler invocation counts).
MaxRequests == 3

\* --------------------------------------------------- program constants
\* list_products: the cap of min(limit, 100) and the default of limit.
LimitCap == 100
DefaultLimit == 50
\* Characters of the string form of an ObjectId.
OidHexLen == 24

None == <<>>
Some(v) == <<v>>
Tenths(whole, frac) == whole * 10 + frac

Min(a, b) == IF a <= b THEN a ELSE b

\* ------------------------------------------------------- ObjectId <-> str
HexLower == <<"0","1","2","3","4","5","6","7","8","9","a","b","c","d","e","f">>
HexUpper == <<"0","1","2","3","4","5","6","7","8","9","A","B","C","D","E","F">>

HexDigits == {HexLower[n] : n \in 1..16} \cup {HexUpper[n] : n \in 1..16}
HexValues ==
    [c \in HexDigits |-> (CHOOSE n \in 1..16 : HexLower[n] = c \/ HexUpper[n] = c) - 1]

IsHexChar(c) == c \in HexDigits
HexVal(c) == HexValues[c]

\* ObjectId(product_id) raises unless the text is 24 hexadecimal characters.
ObjectIdValid(s) == Len(s) = OidHexLen /\ \A i \in 1..Len(s) : IsHexChar(s[i])
\* ObjectId(product_id): the id the text denotes (either letter case).
ObjectId(s) == [type |-> "ObjectId", val |-> [i \in 1..Len(s) |-> HexVal(s[i])]]
\* str(_id): the canonical, lower-case text of an ObjectId.
ObjectIdStr(oid) == [i \in 1..Len(oid.val) |-> HexLower[oid.val[i] + 1]]
\* isinstance(_id, ObjectId); d.get("_id") is None when the key is absent.
IsObjectId(v) == v.type = "ObjectId"

\* ------------------------------------------------------------ serialize_doc
serialize_doc_keep_native(doc) ==
    IF DOMAIN doc = {} THEN doc
    ELSE IF "_id" \in DOMAIN doc /\ IsObjectId(doc["_id"])
         THEN [k \in DOMAIN doc \cup {"id"} |->
                  IF k = "id" THEN ObjectIdStr(doc["_id"]) ELSE doc[k]]
         ELSE doc

serialize_doc_raw_id(doc) ==
    IF DOMAIN doc = {} THEN doc
    ELSE IF "_id" \in DOMAIN doc
         THEN [k \in (DOMAIN doc \ {"_id"}) \cup {"id"} |->
                  IF k = "id" THEN ObjectIdStr(doc["_id"]) ELSE doc[k]]
         ELSE doc

serialize_doc(doc) ==
    IF DOMAIN doc = {} THEN doc
    ELSE IF "_id" \in DOMAIN doc /\ IsObjectId(doc["_id"])
         THEN [k \in (DOMAIN doc \ {"_id"}) \cup {"id"} |->
                  IF k = "id" THEN ObjectIdStr(doc["_id"]) ELSE doc[k]]
         ELSE doc

\* ------------------------------------------------------------ ProductIn
ProductFields ==
    {"title", "description", "price", "category", "in_stock", "image",
     "rating", "notes"}

Has(p, k) == k \in DOMAIN p
IsNull(p, k) == p[k] = None

\* Field(..., ge=0) / Field(4.5, ge=0, le=5): the constraint of a number.
PriceOk(x) == x >= 0
RatingOk(x) == x >= 0 /\ x <= Tenths(5, 0)

\* Whether the payload passes ProductIn's validation.
ProductInValid(p) ==
    /\ Has(p, "title") /\ ~IsNull(p, "title")
    /\ Has(p, "price") /\ ~IsNull(p, "price") /\ PriceOk(p["price"][1])
    /\ Has(p, "category") => ~IsNull(p, "category")
    /\ Has(p, "in_stock") => ~IsNull(p, "in_stock")
    /\ (Has(p, "rating") /\ ~IsNull(p, "rating")) => RatingOk(p["rating"][1])

model_dump_rating_default_5(p) ==
    [title       |-> p["title"][1],
     description |-> IF Has(p, "description") THEN p["description"] ELSE None,
     price       |-> p["price"][1],
     category    |-> IF Has(p, "category") THEN p["category"][1] ELSE "perfume",
     in_stock    |-> IF Has(p, "in_stock") THEN p["in_stock"][1] ELSE TRUE,
     image       |-> IF Has(p, "image") THEN p["image"] ELSE None,
     rating      |-> IF Has(p, "rating") THEN p["rating"] ELSE Some(Tenths(5, 0)),
     notes       |-> IF Has(p, "notes") THEN p["notes"] ELSE Some(<<>>)]

\* product.model_dump(): every declared field, defaults where the payload has
\* no key, unknown keys dropped. Optional fields keep their Optional form.
model_dump(p) ==
    [title       |-> p["title"][1],
     description |-> IF Has(p, "description") THEN p["description"] ELSE None,
     price       |-> p["price"][1],
     category    |-> IF Has(p, "category") THEN p["category"][1] ELSE "perfume",
     in_stock    |-> IF Has(p, "in_stock") THEN p["in_stock"][1] ELSE TRUE,
     image       |-> IF Has(p, "image") THEN p["image"] ELSE None,
     rating      |-> IF Has(p, "rating") THEN p["rating"] ELSE Some(Tenths(4, 5)),
     notes       |-> IF Has(p, "notes") THEN p["notes"] ELSE Some(<<>>)]

\* ------------------------------------------------------------ seed samples
\* seed_products: the three sample products, in insertion order.
samples ==
    << [title       |-> "Citrus Bloom Eau de Parfum",
        description |-> Some("A bright, sparkling blend of bergamot, neroli, and white musk."),
        price       |-> Tenths(68, 0),
        category    |-> "perfume",
        in_stock    |-> TRUE,
        image       |-> Some("https://images.unsplash.com/photo-1541643600914-78b084683601?q=80&w=1200&auto=format&fit=crop"),
        rating      |-> Some(Tenths(4, 7)),
        notes       |-> Some(<<"bergamot", "neroli", "white musk">>)],
       [title       |-> "Amber Leaf Elixir",
        description |-> Some("Warm amber wrapped in vanilla and a hint of tobacco leaf."),
        price       |-> Tenths(84, 0),
        category    |-> "perfume",
        in_stock    |-> TRUE,
        image       |-> Some("https://images.unsplash.com/photo-1595433707802-6b2626ef1c86?q=80&w=1200&auto=format&fit=crop"),
        rating      |-> Some(Tenths(4, 6)),
        notes       |-> Some(<<"amber", "vanilla", "tobacco">>)],
       [title       |-> "Verdant Whisper",
        description |-> Some("Green tea freshness meets jasmine petals and cedarwood."),
        price       |-> Tenths(72, 0),
        category    |-> "perfume",
        in_stock    |-> TRUE,
        image       |-> Some("https://images.unsplash.com/photo-1563170423-18f482d82cc8?q=80&w=1200&auto=format&fit=crop"),
        rating      |-> Some(Tenths(4, 5)),
        notes       |-> Some(<<"green tea", "jasmine", "cedarwood">>)] >>

\* ------------------------------------------------------------ the store
\* The document store and the helpers of the database module (create_document,
\* get_documents), which main.py imports: the store's side of the interface.

\* The ObjectId the store gives its n-th inserted document: a fixed
\* machine/time part and a counter in the last three bytes.
OidPrefix == <<6, 5, 4, 10, 11, 12, 13, 14, 15, 0, 1, 2, 3, 7, 8, 9, 10, 11>>
Pow16(e) == IF e = 0 THEN 1 ELSE IF e = 1 THEN 16 ELSE IF e = 2 THEN 256
            ELSE IF e = 3 THEN 4096 ELSE IF e = 4 THEN 65536 ELSE 1048576
NewOid(n) ==
    [type |-> "ObjectId",
     val  |-> [i \in 1..OidHexLen |->
                 IF i <= Len(OidPrefix) THEN OidPrefix[i]
                 ELSE (n \div Pow16(OidHexLen - i)) % 16]]

\* insert_one: the collection with the document appended under a new _id.
InsertOne(coll, n, doc) ==
    Append(coll, [k \in DOMAIN doc \cup {"_id"} |->
                     IF k = "_id" THEN NewOid(n) ELSE doc[k]])

\* count_documents({}).
CountDocuments(coll) == Len(coll)

\* find_one({"_id": oid}): None, or the first document with that _id.
FindOne(coll, oid) ==
    IF \E i \in 1..Len(coll) : coll[i]["_id"] = oid
    THEN Some(coll[CHOOSE i \in 1..Len(coll) :
                     /\ coll[i]["_id"] = oid
                     /\ \A j \in 1..(i - 1) : coll[j]["_id"] # oid])
    ELSE None

\* {"$regex": q, "$options": "i"} on title: the (pattern, title) pairs of the
\* model's patterns and titles that match, case-insensitively, anywhere.
RegexMatchesI == {<<"amber", "Amber Leaf Elixir">>}

Matches(filt, doc) ==
    \/ DOMAIN filt = {}
    \/ <<filt["title"]["$regex"], doc["title"]>> \in RegexMatchesI

RECURSIVE Filter(_, _)
Filter(coll, filt) ==
    IF coll = <<>> THEN <<>>
    ELSE IF Matches(filt, Head(coll))
         THEN <<Head(coll)>> \o Filter(Tail(coll), filt)
         ELSE Filter(Tail(coll), filt)

\* get_documents(collection, filt, limit): the results it may return. With a
\* limit of at least 1, the first limit matches in natural order; the store's
\* treatment of a limit below 1 is not fixed by its interface, and any prefix
\* of the matches is possible.
GetDocuments(coll, filt, limit) ==
    LET m == Filter(coll, filt) IN
    IF limit >= 1 THEN {SubSeq(m, 1, Min(limit, Len(m)))}
    ELSE {SubSeq(m, 1, k) : k \in 0..Len(m)}

\* ------------------------------------------------------------ state
VARIABLES
    db,        \* whether the store handle is present (db is not None)
    store,     \* the collection "product", in insertion order
    nextOid,   \* the store's id counter
    seed,      \* the seed_products calls in flight, by slot
    nreq,      \* requests accepted so far
    created,   \* the (id string, payload) pairs of create_product's 200 responses
    resp,      \* the last response sent
    shape      \* serialize_doc applied to a record: [doc, stage, once, twice]

vars == <<db, store, nextOid, seed, nreq, created, resp, shape>>

\* A response is a record: op (the handler), status, and body or detail as
\* sent. Beside what is sent it records what the handler was given (limit,
\* filt, payload, product_id) and did: storeLimit (the limit handed to
\* get_documents), storeOps (store operations made before an error answer),
\* and for seed_products the count it read first (existing), the
\* create_document calls it made (inserts), overlapped and disturbed.

\* A seed_products call that has counted the collection (existing) and gone
\* on to insert: pc is where it
\* stands ("insert": in the loop, about to insert samples[i]; "count": before
\* the final count_documents), inserts the create_document calls it has made.
\* overlapped: another seed call was in flight at some point of this call;
\* disturbed: another request wrote to the collection during this call.
NewCall(existing, overlapped) ==
    [pc |-> "insert", i |-> 1, existing |-> existing, inserts |-> 0,
     overlapped |-> overlapped, disturbed |-> FALSE]

\* Calls in flight are anonymous: they are kept in the order of CallKey.
CallKey(c) ==
    (((IF c.pc = "insert" THEN 0 ELSE 1) * 8 + c.i) * 2
        + (IF c.overlapped THEN 1 ELSE 0)) * 2 + (IF c.disturbed THEN 1 ELSE 0)
    + 64 * c.existing
InOrder(calls) == SortSeq(calls, LAMBDA x, y : CallKey(x) < CallKey(y))

\* Another request wrote to the collection: every seed call in flight other
\* than the writer (0: not a seed call) has been disturbed.
Disturb(calls, writer) ==
    [k \in 1..Len(calls) |->
        IF k # writer THEN [calls[k] EXCEPT !.disturbed = TRUE] ELSE calls[k]]

Overlap(calls) == [k \in 1..Len(calls) |-> [calls[k] EXCEPT !.overlapped = TRUE]]

RemoveAt(calls, k) == SubSeq(calls, 1, k - 1) \o SubSeq(calls, k + 1, Len(calls))

\* `if db is None:` at the top of every product handler.
db_is_None_never == FALSE

db_is_None == ~db

\* raise HTTPException(status_code=500, detail="Database not available")
Unavailable(op) ==
    [op |-> op, status |-> 500, detail |-> "Database not available", storeOps |-> 0]

\* ------------------------------------------------------------ request inputs
LimitInputs == {-1, 0, 1, DefaultLimit, LimitCap + 1}
QInputs == {None, Some(""), Some("amber")}

Payloads ==
    { [title |-> Some("X"), price |-> Some(Tenths(10, 0))],
      [price |-> Some(Tenths(10, 0))],
      [title |-> None, price |-> Some(Tenths(10, 0))],
      [title |-> Some(""), price |-> Some(Tenths(10, 0))],
      [title |-> Some("X")],
      [title |-> Some("X"), price |-> Some(-1)],
      [title |-> Some("X"), price |-> Some(0), rating |-> Some(Tenths(5, 1))],
      [title |-> Some("X"), price |-> Some(0), rating |-> Some(-1)],
      [title |-> Some("X"), price |-> Some(Tenths(10, 0)), rating |-> None],
      [title |-> Some("Y"), price |-> Some(0), rating |-> Some(Tenths(5, 0)),
       description |-> Some("smoky"), category |-> Some("candle"),
       in_stock |-> Some(FALSE), image |-> Some("https://example.com/y.png"),
       notes |-> Some(<<"oud">>), colour |-> Some("red")] }

UpperCase(s) == [i \in 1..Len(s) |-> IF IsHexChar(s[i]) THEN HexUpper[HexVal(s[i]) + 1] ELSE s[i]]
AbsentId == [i \in 1..OidHexLen |-> "0"]

\* The ids a caller may ask for: the text of the first ids the store gives
\* out (whether or not given out yet), in both letter cases, a well-formed id
\* the store never gives out, and malformed texts.
IdInputs ==
    LET a == ObjectIdStr(NewOid(0))
        b == ObjectIdStr(NewOid(1)) IN
    { a, b, UpperCase(a), AbsentId,
      SubSeq(a, 1, OidHexLen - 1),
      a \o <<"0">>,
      [a EXCEPT ![1] = "g"],
      <<"a", "b", "c">> }

\* ------------------------------------------------------------ handlers
Init ==
    /\ db \in BOOLEAN
    /\ store = <<>>
    /\ nextOid = 0
    /\ seed = <<>>
    /\ nreq = 0
    /\ created = {}
    /\ resp = [op |-> "none"]
    /\ shape = <<>>

\* GET /products?limit=&q=
list_products ==
    /\ nreq < MaxRequests
    /\ \E limit \in LimitInputs, q \in QInputs :
        IF db_is_None
        THEN /\ resp' = Unavailable("list")
        ELSE LET filt == IF q # None /\ q[1] # ""
                         THEN [title |-> ("$regex" :> q[1]) @@ ("$options" :> "i")]
                         ELSE <<>>
                 storeLimit == Min(limit, LimitCap)
             IN \E docs \in GetDocuments(store, filt, storeLimit) :
                   resp' = [op |-> "list", status |-> 200, limit |-> limit, filt |-> filt,
                            storeLimit |-> storeLimit,
                            body |-> [i \in 1..Len(docs) |-> serialize_doc(docs[i])]]
    /\ nreq' = nreq + 1
    /\ UNCHANGED <<db, store, nextOid, seed, created, shape>>

\* POST /products. The payload is validated against ProductIn before the
\* handler runs; a rejected payload is answered 422 and the handler is not
\* called.
create_product ==
    /\ nreq < MaxRequests
    /\ nreq' = nreq + 1
    /\ \E payload \in Payloads :
        IF ~ProductInValid(payload)
        THEN /\ resp' = [op |-> "create", status |-> 422, payload |-> payload]
             /\ UNCHANGED <<store, nextOid, seed, created>>
        ELSE IF db_is_None
        THEN /\ resp' = Unavailable("create")
             /\ UNCHANGED <<store, nextOid, seed, created>>
        ELSE LET product == model_dump(payload)
                 new_id == ObjectIdStr(NewOid(nextOid))
             IN /\ store' = InsertOne(store, nextOid, product)
                /\ nextOid' = nextOid + 1
                /\ seed' = InOrder(Disturb(seed, 0))
                /\ created' = created \cup {[id |-> new_id, payload |-> payload]}
                /\ resp' = [op |-> "create", status |-> 200, payload |-> payload,
                            body |-> new_id]
    /\ UNCHANGED <<db, shape>>

\* GET /products/{product_id}: the handler's answer over the collection.
get_product_result_404_first(coll, product_id) ==
    IF db_is_None
    THEN Unavailable("get")
    ELSE IF ~ObjectIdValid(product_id) \/ FindOne(coll, ObjectId(product_id)) = None
    THEN [op |-> "get", status |-> 404, product_id |-> product_id,
          detail |-> "Product not found", storeOps |-> 1]
    ELSE [op |-> "get", status |-> 200, product_id |-> product_id,
          body |-> serialize_doc(FindOne(coll, ObjectId(product_id))[1]), storeOps |-> 1]

get_product_result(coll, product_id) ==
    IF db_is_None
    THEN Unavailable("get")
    ELSE IF ~ObjectIdValid(product_id)
    THEN [op |-> "get", status |-> 400, product_id |-> product_id,
          detail |-> "Invalid product id", storeOps |-> 0]
    ELSE LET oid == ObjectId(product_id)
             doc == FindOne(coll, oid)
         IN IF doc = None \/ DOMAIN doc[1] = {}
            THEN [op |-> "get", status |-> 404, product_id |-> product_id,
                  detail |-> "Product not found", storeOps |-> 1]
            ELSE [op |-> "get", status |-> 200, product_id |-> product_id,
                  body |-> serialize_doc(doc[1]), storeOps |-> 1]

get_product ==
    /\ nreq < MaxRequests
    /\ nreq' = nreq + 1
    /\ \E product_id \in IdInputs : resp' = get_product_result(store, product_id)
    /\ UNCHANGED <<db, store, nextOid, seed, created, shape>>

\* `if existing > 0:` of seed_products.
AlreadySeeded_never(existing) == FALSE

AlreadySeeded(existing) == existing > 0

\* POST /seed, up to and including the first count_documents: either the
\* handler returns at once (no handle, or products already exist) or it goes
\* on to insert the samples.
seed_begin ==
    /\ nreq < MaxRequests
    /\ nreq' = nreq + 1
    /\ Len(seed) < MaxSeedCalls
    /\ IF db_is_None
       THEN /\ resp' = Unavailable("seed")
            /\ UNCHANGED seed
       ELSE LET existing == CountDocuments(store)
                others == seed # <<>>
            IN IF AlreadySeeded(existing)
               THEN /\ resp' = [op |-> "seed", status |-> 200,
                                body |-> [status |-> "ok",
                                          message |-> "Products already exist",
                                          count |-> existing],
                                existing |-> existing, inserts |-> 0,
                                overlapped |-> others, disturbed |-> FALSE]
                    /\ seed' = InOrder(Overlap(seed))
               ELSE /\ seed' = InOrder(Append(Overlap(seed), NewCall(existing, others)))
                    /\ UNCHANGED resp
    /\ UNCHANGED <<db, store, nextOid, created, shape>>

seed_insert_replacing(k) ==
    /\ k \in 1..Len(seed)
    /\ seed[k].pc = "insert"
    /\ store' = InsertOne(<<>>, nextOid, samples[seed[k].i])
    /\ nextOid' = nextOid + 1
    /\ seed' = InOrder([Disturb(seed, k) EXCEPT
                    ![k].i = seed[k].i + 1,
                    ![k].inserts = seed[k].inserts + 1,
                    ![k].pc = IF seed[k].i = Len(samples) THEN "count" ELSE "insert"])
    /\ UNCHANGED <<db, nreq, created, resp, shape>>

\* One turn of `for s in samples: create_document("product", s)`.
seed_insert(k) ==
    /\ k \in 1..Len(seed)
    /\ seed[k].pc = "insert"
    /\ store' = InsertOne(store, nextOid, samples[seed[k].i])
    /\ nextOid' = nextOid + 1
    /\ seed' = InOrder([Disturb(seed, k) EXCEPT
                    ![k].i = seed[k].i + 1,
                    ![k].inserts = seed[k].inserts + 1,
                    ![k].pc = IF seed[k].i = Len(samples) THEN "count" ELSE "insert"])
    /\ UNCHANGED <<db, nreq, created, resp, shape>>

seed_finish_reports_inserted(k) ==
    /\ k \in 1..Len(seed)
    /\ seed[k].pc = "count"
    /\ resp' = [op |-> "seed", status |-> 200,
                body |-> [status |-> "ok", inserted |-> Len(samples),
                          count |-> Len(samples)],
                existing |-> seed[k].existing, inserts |-> seed[k].inserts,
                overlapped |-> seed[k].overlapped, disturbed |-> seed[k].disturbed]
    /\ seed' = RemoveAt(seed, k)
    /\ UNCHANGED <<db, store, nextOid, nreq, created, shape>>

\* The final count_documents and the response.
seed_finish(k) ==
    /\ k \in 1..Len(seed)
    /\ seed[k].pc = "count"
    /\ resp' = [op |-> "seed", status |-> 200,
                body |-> [status |-> "ok", inserted |-> Len(samples),
                          count |-> CountDocuments(store)],
                existing |-> seed[k].existing, inserts |-> seed[k].inserts,
                overlapped |-> seed[k].overlapped, disturbed |-> seed[k].disturbed]
    /\ seed' = RemoveAt(seed, k)
    /\ UNCHANGED <<db, store, nextOid, nreq, created, shape>>

seed_products ==
    \/ seed_begin
    \/ \E k \in 1..MaxSeedCalls : seed_insert(k) \/ seed_finish(k)

Next == list_products \/ create_product \/ get_product \/ seed_products

Spec == Init /\ [][Next]_vars

\* ------------------------------------------------------------ serialize_doc alone
\* Records serialize_doc may be given: any set of the keys below, the _id an
\* ObjectId or a value of another type, and a stored seed sample.
NativeIdInputs == {NewOid(0), ObjectId(AbsentId), [type |-> "int", val |-> <<7>>]}
ShapeKeys == {"_id", "id", "title", "price", "in_stock"}
ShapeDocs ==
    UNION { { [k \in K |->
                 IF k = "_id" THEN nid
                 ELSE IF k = "id" THEN <<"o", "l", "d">>
                 ELSE IF k = "title" THEN "X"
                 ELSE IF k = "price" THEN Tenths(10, 0)
                 ELSE TRUE] : nid \in NativeIdInputs } : K \in SUBSET ShapeKeys }
    \cup {InsertOne(<<>>, 0, samples[1])[1]}

InitShape ==
    /\ db = TRUE
    /\ store = <<>>
    /\ nextOid = 0
    /\ seed = <<>>
    /\ nreq = 0
    /\ created = {}
    /\ resp = [op |-> "none"]
    /\ \E doc \in ShapeDocs : shape = [doc |-> doc, stage |-> 0]

shape_once ==
    /\ shape.stage = 0
    /\ shape' = [doc |-> shape.doc, stage |-> 1, once |-> serialize_doc(shape.doc)]
    /\ UNCHANGED <<db, store, nextOid, seed, nreq, created, resp>>

shape_twice ==
    /\ shape.stage = 1
    /\ shape' = [doc |-> shape.doc, stage |-> 2, once |-> shape.once,
                 twice |-> serialize_doc(shape.once)]
    /\ UNCHANGED <<db, store, nextOid, seed, nreq, created, resp>>

NextShape == shape_once \/ shape_twice

SpecShape == InitShape /\ [][NextShape]_vars

\* ============================================================ claims

IsListOk == resp.op = "list" /\ resp.status = 200
IsGetOk == resp.op = "get" /\ resp.status = 200
IsSeedOk == resp.op = "seed" /\ resp.status = 200

\* A step that accepted a request and left a get_product response.
GetAnswered == nreq' = nreq + 1 /\ resp'.op = "get"

\* C1: for every requested limit (0, negative and above 100 included),
\* list_products hands the store a limit in [1, 100], and the response never
\* holds more than min(requested limit, 100) records.
C1_LimitClamped ==
    IsListOk =>
        /\ resp.storeLimit \in 1..100
        /\ Len(resp.body) <= Min(resp.limit, 100)

\* C2: POST /products rejects the payload, inserting nothing, whenever title
\* is missing or empty, price is missing or negative, or rating is present and
\* outside [0, 5]; every accepted payload yields a stored product with a
\* non-empty title, price >= 0 and rating in [0, 5].
ClaimedInvalid(p) ==
    \/ ~("title" \in DOMAIN p) \/ p["title"] = None \/ p["title"] = Some("")
    \/ ~("price" \in DOMAIN p) \/ p["price"] = None \/ p["price"][1] < 0
    \/ /\ "rating" \in DOMAIN p
       /\ p["rating"] # None
       /\ (p["rating"][1] < 0 \/ p["rating"][1] > 50)

IsCreatedRecord(doc, c) == ObjectIdStr(doc["_id"]) = c.id

C2_RejectsInvalid ==
    /\ (resp.op = "create" /\ resp.status # 500 /\ ClaimedInvalid(resp.payload)) =>
          resp.status = 422
    /\ \A c \in created : ~ClaimedInvalid(c.payload)
    /\ \A j \in 1..Len(store) :
          (\E c \in created : IsCreatedRecord(store[j], c)) =>
              /\ store[j]["title"] # ""
              /\ store[j]["price"] >= 0
              /\ store[j]["rating"] # None
              /\ store[j]["rating"][1] >= 0 /\ store[j]["rating"][1] <= 50

\* C3: with the store available, GET /products/{id} puts every id string in
\* exactly one class: not 24 hexadecimal characters -> 400 "Invalid product
\* id" with no store lookup; well-formed with no matching record -> 404
\* "Product not found"; well-formed id of a persisted product -> 200 with that
\* product.
HexChars ==
    {"0","1","2","3","4","5","6","7","8","9",
     "a","b","c","d","e","f","A","B","C","D","E","F"}
WellFormedId(s) == Len(s) = 24 /\ \A i \in 1..Len(s) : s[i] \in HexChars
LowerOf ==
    [c \in HexChars |->
        IF \E n \in 1..16 : HexUpper[n] = c
        THEN HexLower[CHOOSE n \in 1..16 : HexUpper[n] = c] ELSE c]
LowerCase(s) == [i \in 1..Len(s) |-> IF s[i] \in HexChars THEN LowerOf[s[i]] ELSE s[i]]
PersistedAs(coll, s) ==
    LET low == LowerCase(s) IN {j \in 1..Len(coll) : ObjectIdStr(coll[j]["_id"]) = low}
WireProduct(doc, idText) ==
    [k \in ProductFields \cup {"id"} |-> IF k = "id" THEN idText ELSE doc[k]]

C3_GetClassifies ==
    [][(GetAnswered /\ get_product /\ db) =>
        LET r == resp'
            id == r.product_id
            hits == PersistedAs(store, id)
        IN /\ ~WellFormedId(id) =>
                 r.status = 400 /\ r.detail = "Invalid product id" /\ r.storeOps = 0
           /\ (WellFormedId(id) /\ hits = {}) =>
                 r.status = 404 /\ r.detail = "Product not found"
           /\ (WellFormedId(id) /\ hits # {}) =>
                 /\ r.status = 200
                 /\ \E j \in hits : r.body = WireProduct(store[j], LowerCase(id))]_vars

C3_Witness ==
    /\ resp.op = "get" /\ resp.status = 404
    /\ store # <<>>
    /\ WellFormedId(resp.product_id)

\* C4 as claimed: a seed call that overlaps no other seed call performs no
\* insert and reports the count it read when the collection is not empty, and
\* inserts every sample and reports inserted = count = 3 when it is empty.
SeedSequentialOutcome ==
    /\ resp.existing > 0 =>
          /\ resp.inserts = 0
          /\ resp.body.count = resp.existing
          /\ resp.body.count <= Len(store)
    /\ resp.existing = 0 =>
          /\ resp.inserts = 3
          /\ resp.body.inserted = 3
          /\ resp.body.count = 3

C4_SeedNoSeedOverlap ==
    (IsSeedOk /\ ~resp.overlapped) => SeedSequentialOutcome

\* C4 amended: the same outcome for a seed call that overlaps no other seed
\* call and during which no other request writes to the collection.
C4_SeedUndisturbed ==
    (IsSeedOk /\ ~resp.overlapped /\ ~resp.disturbed) => SeedSequentialOutcome

\* Two seed calls in sequence on an empty store: the second has answered, it
\* found the 3 records of the first, inserted nothing, and 3 records remain.
C4_Witness ==
    /\ IsSeedOk /\ ~resp.overlapped /\ ~resp.disturbed
    /\ resp.existing = 3 /\ resp.inserts = 0 /\ resp.body.count = 3
    /\ Len(store) = 3 /\ nreq = 2 /\ created = {}

\* C5: with no store handle, every handler that runs answers 500 "Database
\* not available" before any store operation: the store is never touched (a
\* payload that fails validation is answered 422 before create_product runs).
C5_Unavailable ==
    ~db =>
        /\ store = <<>> /\ nextOid = 0 /\ seed = <<>> /\ created = {}
        /\ resp.op # "none" =>
              \/ resp.op = "create" /\ resp.status = 422
              \/ /\ resp.status = 500
                 /\ resp.detail = "Database not available"
                 /\ resp.storeOps = 0

C5_Witness == ~db /\ resp.op = "seed" /\ resp.status = 500 /\ nreq = 3

\* C6: after POST /products answered an id, GET /products/{id} with that id
\* string answers the product with that id and the payload's fields after
\* defaulting (category "perfume", in_stock true, rating 4.5, notes []),
\* whatever requests came in between.
Defaulted(p, k) ==
    IF k \in DOMAIN p
    THEN IF k \in {"description", "image", "rating", "notes"} THEN p[k] ELSE p[k][1]
    ELSE IF k = "category" THEN "perfume"
    ELSE IF k = "in_stock" THEN TRUE
    ELSE IF k = "rating" THEN Some(45)
    ELSE IF k = "notes" THEN Some(<<>>)
    ELSE None
ExpectedProduct(c) ==
    [k \in ProductFields \cup {"id"} |-> IF k = "id" THEN c.id ELSE Defaulted(c.payload, k)]

C6_CreateThenGet ==
    [][(GetAnswered /\ get_product /\ db) =>
        \A c \in created :
            resp'.product_id = c.id =>
                resp'.status = 200 /\ resp'.body = ExpectedProduct(c)]_vars

\* The scenario: {"title": "X", "price": 10} was created, a seed call came in
\* between, and the GET of the returned id answered 200.
C6_Witness ==
    /\ IsGetOk
    /\ \E c \in created :
          /\ c.id = resp.product_id
          /\ c.payload = [title |-> Some("X"), price |-> Some(100)]
    /\ Len(store) > Cardinality(created)

\* C7: every record list_products or get_product returns has no _id key and
\* has a string id equal to the canonical text of a stored record's native
\* id, with that record's fields.
ShapedFromStore(b) ==
    /\ ~("_id" \in DOMAIN b)
    /\ "id" \in DOMAIN b
    /\ \E j \in 1..Len(store) :
          /\ b["id"] = ObjectIdStr(store[j]["_id"])
          /\ \A k \in ProductFields : b[k] = store[j][k]

C7_WireShape ==
    /\ IsListOk => \A i \in 1..Len(resp.body) : ShapedFromStore(resp.body[i])
    /\ IsGetOk => ShapedFromStore(resp.body)

C7_Witness == IsListOk /\ Len(resp.body) >= 2

\* C8: every persisted product has exactly one id (an ObjectId under _id), no
\* two persisted products share an id, and a persisted product is never
\* modified or removed: the collection only grows at its end.
C8_IdsUniqueStable ==
    /\ [](/\ \A j \in 1..Len(store) :
               "_id" \in DOMAIN store[j] /\ IsObjectId(store[j]["_id"])
          /\ \A i, j \in 1..Len(store) :
               store[i]["_id"] = store[j]["_id"] => i = j)
    /\ [][/\ Len(store') >= Len(store)
          /\ \A j \in 1..Len(store) : store'[j] = store[j]]_vars

C8_Witness == Len(store) = 7 /\ created # {}

\* C9: serialize_doc applied twice equals serialize_doc applied once, and a
\* record with no native id comes back unchanged.
Shaping == DOMAIN shape # {}
HasNativeId(doc) == "_id" \in DOMAIN doc /\ doc["_id"].type = "ObjectId"

C9_Idempotent ==
    /\ (Shaping /\ shape.stage = 2) => shape.twice = shape.once
    /\ (Shaping /\ shape.stage >= 1 /\ ~HasNativeId(shape.doc)) => shape.once = shape.doc

C9_Witness ==
    /\ Shaping /\ shape.stage = 2
    /\ HasNativeId(shape.doc) /\ "id" \in DOMAIN shape.doc
    /\ shape.once # shape.doc

\* C10: the count-then-insert of seed_products is not atomic. A seed call
\* that inserted the samples while another request wrote to the collection
\* reports a count above the number it inserted, and nothing is undone: every
\* call that found the collection empty inserts all 3 samples, so the
\* collection holds at least 3 records per finished such call.
RECURSIVE InsertsInFlight(_)
InsertsInFlight(calls) ==
    IF calls = <<>> THEN 0 ELSE Head(calls).inserts + InsertsInFlight(Tail(calls))

C10_SeedRace ==
    /\ (IsSeedOk /\ resp.existing = 0) =>
          /\ resp.inserts = 3 /\ resp.body.inserted = 3
          /\ resp.disturbed => resp.body.count > resp.body.inserted
    /\ Len(store) >= InsertsInFlight(seed)
    /\ (Len(seed) = 2 /\ \A k \in 1..Len(seed) : seed[k].pc = "count") =>
          Len(store) >= 6

\* Two overlapping seed calls both found the collection empty and both
\* inserted: 6 records, and a call reports inserted = 3 with count 6.
C10_Witness ==
    /\ IsSeedOk /\ resp.overlapped /\ resp.existing = 0
    /\ resp.body.inserted = 3 /\ resp.body.count = 6
    /\ Len(store) = 6 /\ created = {}

====
